---------------------------- MODULE Spec2Model ----------------------------
(***************************************************************************)
(* A model of the AI response pipeline of the Discord/web chatbot:         *)
(*   src/cogs/chat.py    ChatCog (conversation store, context builder,     *)
(*                       provider call, response chunker, commands)        *)
(*   src/web_server.py   Flask routes /api/chat, /api/clear-history,       *)
(*                       _build_messages, generate_ai_response             *)
(*   src/config.py       Config (provider selection, required keys)        *)
(*                                                                         *)
(* Text.  A Python str is modelled as a run-length encoded sequence of     *)
(* runs [c |-> class, n |-> count], n >= 1, adjacent runs of different     *)
(* class.  Class WS is a whitespace character, class TERM is one of the    *)
(* sentence terminators . ! ?, every other class is a character that is    *)
(* neither.  len, +, strip and re.split are computed on the runs, so the   *)
(* 2000 character limit of the bot keeps its real value.  A constant       *)
(* message of the program (an error text, a system prompt) is one run of   *)
(* a class of its own with the message's real length: it neither begins    *)
(* nor ends in whitespace and is shorter than the limit, so no operation   *)
(* of the program looks inside it.                                         *)
(***************************************************************************)
EXTENDS Integers, Sequences, FiniteSets, TLC

VARIABLES
    environ,          \* os.environ: the variables Config() reads
    config,           \* the Config object: whether it was constructed, its keys
    ai_provider,      \* config.ai_provider after Config() was constructed
    session,          \* Flask session data of each browser session
    bot_history,      \* ChatCog.conversation_history: user id -> list of entries
    web_history,      \* web_server.conversation_history: key -> list of entries
    bot,              \* the bot's handler tasks (one coroutine each)
    web,              \* the web server's request threads
    ops,              \* number of requests started so far (bounded)
    appended,         \* per bot user, every entry ever passed to extend()
    response,         \* argument of the _format_response call under study
    response_parts,   \* its return value, or NotCalled
    sent              \* the messages chat_command then delivered, or NotSent

vars == <<environ, config, ai_provider, session, bot_history, web_history, bot, web, ops,
          appended, response, response_parts, sent>>

configVars == <<environ, config, ai_provider>>
pipelineVars == <<configVars, session, bot_history, web_history, bot, web, ops>>
chunkVars == <<response, response_parts, sent>>

---------------------------------------------------------------------------
(* Bounds of the model *)

MaxRuns == 5          \* runs in a text handed to _format_response
MaxAppends == 11      \* calls of _update_conversation_history in SpecStore
MaxOps == 3           \* requests started in the pipeline specification

(* Program constants *)

max_history_length == 10
max_message_length == 2000
WebContextWindow == 20

---------------------------------------------------------------------------
(* Text *)

WS == " "
TERM == "."

Run(c, n) == [c |-> c, n |-> n]

EmptyText == <<>>

Chars(c, n) == <<Run(c, n)>>

RECURSIVE StrLen(_)
StrLen(t) == IF t = <<>> THEN 0 ELSE Head(t).n + StrLen(Tail(t))

\* a + b
StrConcat(a, b) ==
    IF a = <<>> THEN b
    ELSE IF b = <<>> THEN a
    ELSE IF a[Len(a)].c = b[1].c
         THEN SubSeq(a, 1, Len(a) - 1)
                  \o <<Run(b[1].c, a[Len(a)].n + b[1].n)>>
                  \o Tail(b)
         ELSE a \o b

\* t.strip()
StrStrip(t) ==
    LET l == IF t # <<>> /\ t[1].c = WS THEN Tail(t) ELSE t
    IN  IF l # <<>> /\ l[Len(l)].c = WS THEN SubSeq(l, 1, Len(l) - 1) ELSE l

\* re.split(r'(?<=[.!?])\s+', t): a whitespace run that follows a terminator
\* separates two pieces; a separator at the end leaves an empty last piece.
RECURSIVE SplitFrom(_, _, _)
SplitFrom(t, i, cur) ==
    IF i > Len(t) THEN <<cur>>
    ELSE IF t[i].c = WS /\ i > 1 /\ t[i - 1].c = TERM
         THEN <<cur>> \o SplitFrom(t, i + 1, <<>>)
         ELSE SplitFrom(t, i + 1, Append(cur, t[i]))

re_split(t) == SplitFrom(t, 1, <<>>)

---------------------------------------------------------------------------
(* ChatCog._format_response *)

\* the body of the for loop, for sentences[i..]
RECURSIVE FormatLoop(_, _, _, _)
FormatLoop(sentences, i, parts, current_part) ==
    IF i > Len(sentences) THEN [parts |-> parts, current_part |-> current_part]
    ELSE LET sentence == sentences[i] IN
         IF StrLen(current_part) + StrLen(sentence) + 1 <= max_message_length
         THEN FormatLoop(sentences, i + 1, parts,
                  StrConcat(current_part, StrStrip(StrConcat(sentence, Chars(WS, 1)))))
         ELSE FormatLoop(sentences, i + 1,
                  IF current_part # EmptyText
                  THEN Append(parts, StrStrip(current_part)) ELSE parts,
                  StrConcat(sentence, Chars(WS, 1)))

format_response(text) ==
    IF StrLen(text) <= max_message_length THEN <<text>>
    ELSE LET end == FormatLoop(re_split(text), 1, <<>>, EmptyText)
         IN  IF end.current_part # EmptyText
             THEN Append(end.parts, StrStrip(end.current_part))
             ELSE end.parts

---------------------------------------------------------------------------
(* Python dict and list helpers *)

EmptyDict == [k \in {} |-> <<>>]

\* d.get(k, default)
DictGet(d, k, default) == IF k \in DOMAIN d THEN d[k] ELSE default

\* d[k] = v
DictSet(d, k, v) == [x \in DOMAIN d \cup {k} |-> IF x = k THEN v ELSE d[x]]

\* del d[k]
DictDel(d, k) == [x \in DOMAIN d \ {k} |-> d[x]]

\* s[-n:] for n > 0
LastN(s, n) == IF Len(s) <= n THEN s ELSE SubSeq(s, Len(s) - n + 1, Len(s))

Entry(role, content) == [role |-> role, content |-> content]

---------------------------------------------------------------------------
(* Constant texts of the program *)

RateLimitMsg == Chars("I'm experiencing high traffic right now. Please try again in a moment.", 70)
TimeoutMsg == Chars("The AI service is taking longer than expected. Please try again.", 64)
ApiErrorMsg == Chars("I'm experiencing technical difficulties. Please try again later.", 64)
UnexpectedMsg == Chars("An unexpected error occurred. Please try again later.", 53)
UnavailableMsg == Chars("The AI service is currently unavailable. Verify API keys, model names, and outbound network connectivity.", 105)
BotSystemPrompt == Chars("You are a helpful AI assistant in a Discord server. ...", 138)
WebSystemPrompt == Chars("You are a helpful AI assistant in a Discord/web app. ...", 88)
EmptyMessageError == Chars("Message cannot be empty", 23)
InternalServerError == Chars("Internal server error", 21)

---------------------------------------------------------------------------
(* config.py.  The value of an environment variable is a sequence of       *)
(* characters, so that strip() and lower() are computed; a variable is set *)
(* or not, and os.getenv gives None for one that is not set and has no     *)
(* default.  The model names (openai_model, gemini_model) are left out:    *)
(* they take no part in the choice of the provider.                        *)

Unset == [set |-> FALSE, value |-> <<>>]
Set(value) == [set |-> TRUE, value |-> value]

OPENAI == <<"o", "p", "e", "n", "a", "i">>
GEMINI == <<"g", "e", "m", "i", "n", "i">>

\* os.getenv(name, default)
getenv(env, name, default) == IF env[name].set THEN env[name] ELSE default

\* the truth value of an optional string: None and '' are false
Truthy(v) == v.set /\ v.value # <<>>

\* s.strip()
RECURSIVE lstrip(_)
lstrip(chars) ==
    IF chars # <<>> /\ Head(chars) = " " THEN lstrip(Tail(chars)) ELSE chars

RECURSIVE rstrip(_)
rstrip(chars) ==
    IF chars # <<>> /\ chars[Len(chars)] = " "
    THEN rstrip(SubSeq(chars, 1, Len(chars) - 1)) ELSE chars

strip(chars) == rstrip(lstrip(chars))

\* s.lower()
lower(chars) ==
    [i \in 1..Len(chars) |->
        CASE chars[i] = "A" -> "a" [] chars[i] = "C" -> "c"
          [] chars[i] = "E" -> "e" [] chars[i] = "G" -> "g"
          [] chars[i] = "I" -> "i" [] chars[i] = "M" -> "m"
          [] chars[i] = "N" -> "n" [] chars[i] = "O" -> "o"
          [] chars[i] = "P" -> "p" [] OTHER -> chars[i]]

ConfigRaises == [raised |-> TRUE, ai_provider |-> <<>>, discord_token |-> Unset,
                 openai_api_key |-> Unset, gemini_api_key |-> Unset]

\* _validate_config without the fallback to 'openai' of lines 53-55
validate_config_no_fallback(c) ==
    IF ~Truthy(c.discord_token) THEN ConfigRaises
    ELSE IF c.ai_provider = OPENAI
         THEN IF ~Truthy(c.openai_api_key) THEN ConfigRaises ELSE c
         ELSE IF c.ai_provider = GEMINI
              THEN IF ~Truthy(c.gemini_api_key) THEN ConfigRaises ELSE c
              ELSE c

\* config.py:46-83: the object after _validate_config, or ConfigRaises
validate_config(c) ==
    IF ~Truthy(c.discord_token) THEN ConfigRaises
    ELSE LET n == IF c.ai_provider \notin {OPENAI, GEMINI}
                  THEN [c EXCEPT !.ai_provider = OPENAI] ELSE c
         IN  IF n.ai_provider = OPENAI
             THEN IF ~Truthy(n.openai_api_key) THEN ConfigRaises ELSE n
             ELSE IF n.ai_provider = GEMINI
                  THEN IF ~Truthy(n.gemini_api_key) THEN ConfigRaises ELSE n
                  ELSE n

\* config.py:28-44: Config() in the environment env
Config(env) ==
    LET given == getenv(env, "AI_PROVIDER", Set(OPENAI)).value
    IN  validate_config(
            [raised |-> FALSE,
             discord_token |-> getenv(env, "DISCORD_TOKEN", Unset),
             ai_provider |-> lower(strip(IF given = <<>> THEN OPENAI ELSE given)),
             openai_api_key |-> getenv(env, "OPENAI_API_KEY", Unset),
             gemini_api_key |-> getenv(env, "GEMINI_API_KEY", Unset)])

\* the provider as the comparisons config.ai_provider == 'openai' and
\* config.ai_provider == 'gemini' of the pipeline see it
ProviderName(chars) ==
    IF chars = OPENAI THEN "openai"
    ELSE IF chars = GEMINI THEN "gemini"
    ELSE "unsupported"

NotConstructed == [constructed |-> "no", discord_token |-> Unset,
                   openai_api_key |-> Unset, gemini_api_key |-> Unset]

\* the config variable for what Config() gave
ConfigObject(c) ==
    [constructed |-> IF c.raised THEN "raised" ELSE "yes",
     discord_token |-> c.discord_token,
     openai_api_key |-> c.openai_api_key,
     gemini_api_key |-> c.gemini_api_key]

\* config.py:95  config = Config()
ConfigInit ==
    /\ config.constructed = "no"
    /\ LET c == Config(environ) IN
       /\ config' = ConfigObject(c)
       /\ ai_provider' = IF c.raised THEN ai_provider ELSE ProviderName(c.ai_provider)
    /\ UNCHANGED <<environ, session, bot_history, web_history, bot, web, ops,
                   appended, response, response_parts, sent>>

---------------------------------------------------------------------------
(* The provider.  What a call of the provider SDK does is not decided by   *)
(* the program: it returns a response object or raises.                    *)
(*   kind        "response" (returned), or the exception raised            *)
(*   none        the text field of the response is None                    *)
(*                 (choices[0].message.content, or result.text)            *)
(*   content     the text field otherwise                                  *)
(*   candidates  Gemini's result.candidates: for each, whether reading     *)
(*               cand.content.parts[0].text succeeds, and its value        *)

Outcome(kind, none, content, candidates) ==
    [kind |-> kind, none |-> none, content |-> content, candidates |-> candidates]

Cand(ok, text) == [ok |-> ok, text |-> text]

Raises(kind) == Outcome(kind, FALSE, EmptyText, <<>>)

ReplyText == <<Run(WS, 1), Run("b", 1)>>
BlankText == Chars(WS, 1)

OpenAIOutcomes ==
    {Outcome("response", FALSE, ReplyText, <<>>),
     Outcome("response", FALSE, BlankText, <<>>),
     Outcome("response", TRUE, EmptyText, <<>>),
     Raises("RateLimitError"), Raises("APITimeoutError"),
     Raises("APIError"), Raises("Exception")}

GeminiOutcomes ==
    {Outcome("response", FALSE, ReplyText, <<>>),
     Outcome("response", TRUE, EmptyText, <<>>),
     Outcome("response", FALSE, BlankText, <<Cand(FALSE, EmptyText), Cand(TRUE, ReplyText)>>),
     Outcome("response", TRUE, EmptyText, <<Cand(TRUE, BlankText)>>),
     Raises("Exception")}

ProviderOutcomes(provider) ==
    IF provider = "openai" THEN OpenAIOutcomes ELSE GeminiOutcomes

\* "\n".join(parts): a newline is a whitespace character
RECURSIVE JoinNewline(_)
JoinNewline(parts) ==
    IF parts = <<>> THEN EmptyText
    ELSE IF Len(parts) = 1 THEN parts[1]
    ELSE StrConcat(StrConcat(parts[1], Chars(WS, 1)), JoinNewline(Tail(parts)))

\* [cand.content.parts[0].text for cand in candidates], a candidate whose
\* read raises being skipped, and then [p for p in collected if p]
CollectedParts(candidates) ==
    LET got == SelectSeq(candidates, LAMBDA cand : cand.ok /\ cand.text # EmptyText)
    IN  [i \in 1..Len(got) |-> got[i].text]

---------------------------------------------------------------------------
(* ChatCog: conversation store and context builder *)

\* the new message put in front of the history instead of behind it
build_conversation_context_message_first(history, user_id, current_message) ==
    <<Entry("system", BotSystemPrompt), Entry("user", current_message)>>
        \o (IF user_id \in DOMAIN history THEN history[user_id] ELSE <<>>)

\* chat.py:132-161
build_conversation_context(history, user_id, current_message) ==
    <<Entry("system", BotSystemPrompt)>>
        \o (IF user_id \in DOMAIN history THEN history[user_id] ELSE <<>>)
        \o <<Entry("user", current_message)>>

\* the trim keeping the oldest entries ([:20]) instead of the newest ([-20:])
update_conversation_history_keep_oldest(history, user_id, user_message, ai_response) ==
    LET h1 == IF user_id \notin DOMAIN history
              THEN DictSet(history, user_id, <<>>) ELSE history
        h2 == DictSet(h1, user_id,
                  h1[user_id] \o <<Entry("user", user_message),
                                   Entry("assistant", ai_response)>>)
    IN  IF Len(h2[user_id]) > max_history_length * 2
        THEN DictSet(h2, user_id, SubSeq(h2[user_id], 1, max_history_length * 2))
        ELSE h2

\* chat.py:163-183: the new value of self.conversation_history
update_conversation_history(history, user_id, user_message, ai_response) ==
    LET h1 == IF user_id \notin DOMAIN history
              THEN DictSet(history, user_id, <<>>) ELSE history
        h2 == DictSet(h1, user_id,
                  h1[user_id] \o <<Entry("user", user_message),
                                   Entry("assistant", ai_response)>>)
    IN  IF Len(h2[user_id]) > max_history_length * 2
        THEN DictSet(h2, user_id, LastN(h2[user_id], max_history_length * 2))
        ELSE h2

\* chat.py:85-102: _gen(), the text extracted from Gemini's result
gen(o) ==
    LET text == StrStrip(IF o.none THEN EmptyText ELSE o.content)
    IN  IF text # EmptyText THEN text
        ELSE IF o.candidates # <<>>
             THEN StrStrip(JoinNewline(CollectedParts(o.candidates)))
             ELSE EmptyText

\* chat.py:59-108: the provider branch of _get_ai_response, given what the
\* provider call did: the exception that leaves the try block ("none" when
\* the branch ends normally) and the value of ai_response
BotProviderBranch(provider, o) ==
    IF provider = "openai" THEN
        IF o.kind # "response" THEN [raised |-> o.kind, ai_response |-> EmptyText]
        ELSE IF o.none THEN [raised |-> "AttributeError", ai_response |-> EmptyText]
        ELSE [raised |-> "none", ai_response |-> StrStrip(o.content)]
    ELSE IF provider = "gemini" THEN
        IF o.kind # "response" THEN [raised |-> o.kind, ai_response |-> EmptyText]
        ELSE IF gen(o) = EmptyText
             THEN [raised |-> "RuntimeError", ai_response |-> EmptyText]
             ELSE [raised |-> "none", ai_response |-> gen(o)]
    ELSE [raised |-> "ValueError", ai_response |-> EmptyText]

\* the last except clause answering with the text of the exception, str(e)
ErrorMessage_raw(raised) ==
    CASE raised = "RateLimitError" -> RateLimitMsg
      [] raised = "APITimeoutError" -> TimeoutMsg
      [] raised = "APIError" -> ApiErrorMsg
      [] OTHER -> Chars(raised, 1)

\* chat.py:116-130: the except clauses of _get_ai_response
ErrorMessage(raised) ==
    CASE raised = "RateLimitError" -> RateLimitMsg
      [] raised = "APITimeoutError" -> TimeoutMsg
      [] raised = "APIError" -> ApiErrorMsg
      [] OTHER -> UnexpectedMsg

---------------------------------------------------------------------------
(* web_server: context builder and provider call *)

\* web_server.py:210-229
build_messages(history, user_id, current_message) ==
    LET recent == LastN(DictGet(history, user_id, <<>>), WebContextWindow)
        kept == SelectSeq(recent, LAMBDA item : item.content # EmptyText)
    IN  <<Entry("system", WebSystemPrompt)>>
            \o [i \in 1..Len(kept) |->
                   Entry(IF kept[i].role = "ai" THEN "assistant" ELSE kept[i].role,
                         kept[i].content)]
            \o <<Entry("user", current_message)>>

\* web_server.py:236-290: what generate_ai_response returns, and whether
\* it went through its except clause
generate_ai_response(provider, o) ==
    LET failed == [failed |-> TRUE, text |-> UnavailableMsg] IN
    IF o.kind # "response" THEN failed
    ELSE IF provider = "openai" THEN
        LET text == StrStrip(IF o.none THEN EmptyText ELSE o.content)
        IN  IF text # EmptyText THEN [failed |-> FALSE, text |-> text] ELSE failed
    ELSE IF provider = "gemini" THEN
        LET text == StrStrip(IF o.none THEN EmptyText ELSE o.content)
            more == StrStrip(JoinNewline(CollectedParts(o.candidates)))
        IN  IF text # EmptyText THEN [failed |-> FALSE, text |-> text]
            ELSE IF o.candidates # <<>> /\ more # EmptyText
                 THEN [failed |-> FALSE, text |-> more]
                 ELSE failed
    ELSE failed

---------------------------------------------------------------------------
(* Handlers.  A bot task is one command coroutine of the asyncio loop: it  *)
(* runs without interruption from one await to the next.  A web thread is  *)
(* one request thread of the Flask server (threaded=True).  The record of  *)
(* a task or thread holds the locals of the request it is serving; once    *)
(* the request is answered it holds the answer only.                       *)

ClearedReply == Chars("Your conversation history has been cleared!", 46)
NothingToClearReply == Chars("You don't have any conversation history to clear.", 49)
HistoryClearedReply == Chars("History cleared successfully", 28)

NotCalled == [called |-> FALSE, parts |-> <<>>]

NotSent == [done |-> FALSE, messages |-> <<>>]

BotTaskIdle ==
    [pc |-> "idle", cmd |-> "-", user_id |-> "-", message |-> EmptyText,
     messages |-> <<>>, raised |-> "none", result |-> EmptyText]

WebThreadIdle ==
    [pc |-> "idle", cmd |-> "-", session |-> "-", user_id |-> "-",
     message |-> EmptyText, messages |-> <<>>, failed |-> FALSE,
     status |-> 0, result |-> EmptyText]

\* session.get(key, default) in the request of browser session s
session_get(s, key, default) == DictGet(session[s], key, default)

\* web_server.py:147-161: the history GET /api/history returns to session s
history(s) == DictGet(web_history, session_get(s, "user_id", "anonymous"), <<>>)

\* chat.py:238-243, 54-104: /chat up to the await of the provider call
BotChatStart(t, user_id, message) ==
    /\ bot[t].pc # "awaiting"
    /\ LET messages == build_conversation_context(bot_history, user_id, message)
           b == BotProviderBranch(ai_provider, Raises("none"))
       IN  IF ai_provider \in {"openai", "gemini"}
           THEN bot' = [bot EXCEPT ![t] =
                    [pc |-> "awaiting", cmd |-> "chat", user_id |-> user_id,
                     message |-> message, messages |-> messages,
                     raised |-> "none", result |-> EmptyText]]
           ELSE bot' = [bot EXCEPT ![t] =
                    [BotTaskIdle EXCEPT !.pc = "done", !.cmd = "chat",
                                        !.raised = b.raised,
                                        !.result = ErrorMessage(b.raised)]]
    /\ ops' = ops + 1
    /\ UNCHANGED <<configVars, session, bot_history, web_history, web, chunkVars>>

\* chat.py:60-130: the provider call ends; _get_ai_response returns
BotProviderReturns(t, o) ==
    /\ bot[t].pc = "awaiting"
    /\ LET b == BotProviderBranch(ai_provider, o) IN
       IF b.raised = "none"
       THEN /\ bot_history' = update_conversation_history(
                    bot_history, bot[t].user_id, bot[t].message, b.ai_response)
            /\ bot' = [bot EXCEPT ![t] =
                        [BotTaskIdle EXCEPT !.pc = "done", !.cmd = "chat",
                                            !.result = b.ai_response]]
       ELSE /\ bot_history' = bot_history
            /\ bot' = [bot EXCEPT ![t] =
                        [BotTaskIdle EXCEPT !.pc = "done", !.cmd = "chat",
                                            !.raised = b.raised,
                                            !.result = ErrorMessage(b.raised)]]
    /\ UNCHANGED <<configVars, session, web_history, web, ops, chunkVars>>

\* chat.py:271-285: /clear
BotClear(t, user_id) ==
    /\ bot[t].pc # "awaiting"
    /\ bot_history' = IF user_id \in DOMAIN bot_history
                      THEN DictDel(bot_history, user_id) ELSE bot_history
    /\ bot' = [bot EXCEPT ![t] =
                  [BotTaskIdle EXCEPT !.pc = "done", !.cmd = "clear",
                       !.result = IF user_id \in DOMAIN bot_history
                                  THEN ClearedReply ELSE NothingToClearReply]]
    /\ ops' = ops + 1
    /\ UNCHANGED <<configVars, session, web_history, web, chunkVars>>

\* web_server.py:71-87: POST /api/chat up to the stored user message
WebChatBegin(w, s, body) ==
    /\ web[w].pc \in {"idle", "done"}
    /\ LET message == StrStrip(body.message)
           user_id == session_get(s, "user_id", "anonymous")
           req == [WebThreadIdle EXCEPT !.cmd = "chat"]
       IN  IF ~body.json
           THEN /\ web' = [web EXCEPT ![w] =
                        [req EXCEPT !.pc = "done", !.status = 500,
                                    !.result = InternalServerError]]
                /\ web_history' = web_history
           ELSE IF message = EmptyText
           THEN /\ web' = [web EXCEPT ![w] =
                        [req EXCEPT !.pc = "done", !.status = 400,
                                    !.result = EmptyMessageError]]
                /\ web_history' = web_history
           ELSE /\ web' = [web EXCEPT ![w] =
                        [req EXCEPT !.pc = "stored", !.session = s,
                                    !.user_id = user_id, !.message = message]]
                /\ web_history' = DictSet(web_history, user_id,
                        Append(DictGet(web_history, user_id, <<>>),
                               Entry("user", message)))
    /\ ops' = ops + 1
    /\ UNCHANGED <<configVars, session, bot_history, bot, chunkVars>>

\* web_server.py:90, 234: generate_ai_response builds its messages and
\* calls the provider
WebGenerateStart(w) ==
    /\ web[w].pc = "stored"
    /\ web' = [web EXCEPT ![w].pc = "calling",
                          ![w].messages = build_messages(web_history,
                                              web[w].user_id, web[w].message)]
    /\ UNCHANGED <<configVars, session, bot_history, web_history, bot, ops, chunkVars>>

\* web_server.py:236-290, 92-108: the provider call ends, the answer is
\* stored and returned; the list of a user whose history was cleared
\* meanwhile is gone, and the KeyError becomes a 500
WebProviderReturns(w, o) ==
    /\ web[w].pc = "calling"
    /\ LET g == generate_ai_response(ai_provider, o) IN
       IF web[w].user_id \in DOMAIN web_history
       THEN /\ web_history' = DictSet(web_history, web[w].user_id,
                    Append(web_history[web[w].user_id], Entry("ai", g.text)))
            /\ web' = [web EXCEPT ![w] =
                        [WebThreadIdle EXCEPT !.pc = "done", !.cmd = "chat",
                             !.failed = g.failed, !.status = 200,
                             !.result = g.text]]
       ELSE /\ web_history' = web_history
            /\ web' = [web EXCEPT ![w] =
                        [WebThreadIdle EXCEPT !.pc = "done", !.cmd = "chat",
                             !.failed = g.failed, !.status = 500,
                             !.result = InternalServerError]]
    /\ UNCHANGED <<configVars, session, bot_history, bot, ops, chunkVars>>

\* web_server.py:163-181: POST /api/clear-history
WebClearHistory(w, s) ==
    /\ web[w].pc \in {"idle", "done"}
    /\ LET user_id == session_get(s, "user_id", "anonymous") IN
       /\ web_history' = IF user_id \in DOMAIN web_history
                         THEN DictDel(web_history, user_id) ELSE web_history
       /\ web' = [web EXCEPT ![w] =
                     [WebThreadIdle EXCEPT !.pc = "done", !.cmd = "clear",
                          !.status = 200, !.result = HistoryClearedReply]]
    /\ ops' = ops + 1
    /\ UNCHANGED <<configVars, session, bot_history, bot, chunkVars>>

---------------------------------------------------------------------------
(* The pipeline: both front doors, concurrent requests *)

BotUsers == {"u1", "u2"}
BotTasks == {"t1", "t2"}
Sessions == {"s1", "s2"}
WebThreads == {"w1", "w2"}
Msgs == {Chars("a", 1)}
RequestBodies ==
    {[json |-> TRUE, message |-> <<Run(WS, 1), Run("a", 1)>>],
     [json |-> TRUE, message |-> BlankText],
     [json |-> FALSE, message |-> EmptyText]}

\* the environments of a deployment that starts: one provider, its key
DeployedEnvs ==
    {[AI_PROVIDER |-> Set(OPENAI), DISCORD_TOKEN |-> Set(<<"t">>),
      OPENAI_API_KEY |-> Set(<<"k">>), GEMINI_API_KEY |-> Unset],
     [AI_PROVIDER |-> Set(GEMINI), DISCORD_TOKEN |-> Set(<<"t">>),
      OPENAI_API_KEY |-> Unset, GEMINI_API_KEY |-> Set(<<"k">>)]}

Init ==
    /\ environ \in DeployedEnvs
    /\ config = ConfigObject(Config(environ))
    /\ ai_provider = ProviderName(Config(environ).ai_provider)
    /\ session = [s \in Sessions |-> EmptyDict]
    /\ bot_history = EmptyDict
    /\ web_history = EmptyDict
    /\ bot = [t \in BotTasks |-> BotTaskIdle]
    /\ web = [w \in WebThreads |-> WebThreadIdle]
    /\ ops = 0
    /\ appended = [u \in BotUsers |-> <<>>]
    /\ response = EmptyText
    /\ response_parts = NotCalled
    /\ sent = NotSent

Next ==
    \/ \E t \in BotTasks, u \in BotUsers, m \in Msgs :
           ops < MaxOps /\ BotChatStart(t, u, m) /\ UNCHANGED appended
    \/ \E t \in BotTasks, o \in ProviderOutcomes(ai_provider) :
           BotProviderReturns(t, o) /\ UNCHANGED appended
    \/ \E t \in BotTasks, u \in BotUsers :
           ops < MaxOps /\ BotClear(t, u) /\ UNCHANGED appended
    \/ \E w \in WebThreads, s \in Sessions, body \in RequestBodies :
           ops < MaxOps /\ WebChatBegin(w, s, body) /\ UNCHANGED appended
    \/ \E w \in WebThreads : WebGenerateStart(w) /\ UNCHANGED appended
    \/ \E w \in WebThreads, o \in ProviderOutcomes(ai_provider) :
           WebProviderReturns(w, o) /\ UNCHANGED appended
    \/ \E w \in WebThreads, s \in Sessions :
           ops < MaxOps /\ WebClearHistory(w, s) /\ UNCHANGED appended

Spec == Init /\ [][Next]_vars

\* the step in which the request of bot task t is answered after its
\* provider call raised
BotExchangeFails(t) ==
    bot[t].pc = "awaiting" /\ bot'[t].pc = "done" /\ bot'[t].raised # "none"

\* the step in which the request of web thread w is answered after
\* generate_ai_response went through its except clause
WebExchangeFails(w) ==
    web[w].pc = "calling" /\ web'[w].pc = "done" /\ web'[w].failed

\* C2: a failed exchange is never recorded: the step that ends an exchange
\* whose provider call failed leaves the conversation store as it was, on
\* the bot and on the web.
C2_FailedExchangeNotRecorded ==
    [][/\ \A t \in BotTasks : BotExchangeFails(t) => bot_history' = bot_history
       /\ \A w \in WebThreads : WebExchangeFails(w) => web_history' = web_history]_vars

\* C3: an answer that is empty after stripping is a failure: no chat
\* request is answered with the empty string and no stored entry has empty
\* content (no user message is empty), for either provider on both doors.
C3_EmptyResponseIsFailure ==
    /\ \A t \in BotTasks :
          (bot[t].pc = "done" /\ bot[t].cmd = "chat") => bot[t].result # EmptyText
    /\ \A w \in WebThreads :
          (web[w].pc = "done" /\ web[w].cmd = "chat") => web[w].result # EmptyText
    /\ \A u \in DOMAIN bot_history : \A i \in 1..Len(bot_history[u]) :
          bot_history[u][i].content # EmptyText
    /\ \A k \in DOMAIN web_history : \A i \in 1..Len(web_history[k]) :
          web_history[k][i].content # EmptyText

\* C8: exchanges of one user are serialized: no two exchanges of the same
\* user are at the same time between building their context and appending
\* their result.
C8_SameUserSerialized ==
    /\ \A t1, t2 \in BotTasks :
          (t1 # t2 /\ bot[t1].pc = "awaiting" /\ bot[t2].pc = "awaiting")
              => bot[t1].user_id # bot[t2].user_id
    /\ \A w1, w2 \in WebThreads :
          (w1 # w2 /\ web[w1].pc = "calling" /\ web[w2].pc = "calling")
              => web[w1].user_id # web[w2].user_id

\* a history made of whole pairs: a user entry, then an assistant entry
WholePairs(h, assistant) ==
    /\ Len(h) % 2 = 0
    /\ \A i \in 1..Len(h) : h[i].role = (IF i % 2 = 1 THEN "user" ELSE assistant)

Quiescent ==
    /\ \A t \in BotTasks : bot[t].pc # "awaiting"
    /\ \A w \in WebThreads : web[w].pc \notin {"stored", "calling"}

\* C9: once all concurrent exchanges have finished, every history consists
\* of whole pairs, each user entry immediately followed by its assistant
\* entry.
C9_WholePairsWhenDone ==
    Quiescent =>
        /\ \A u \in DOMAIN bot_history : WholePairs(bot_history[u], "assistant")
        /\ \A k \in DOMAIN web_history : WholePairs(web_history[k], "ai")

\* C10: users are independent: a step changes the history of at most one
\* bot user id and the history served to at most one web session.
C10_OtherUsersUntouched ==
    [][/\ \E u \in BotUsers : \A v \in BotUsers \ {u} :
              DictGet(bot_history', v, <<>>) = DictGet(bot_history, v, <<>>)
       /\ \E s \in Sessions : \A r \in Sessions \ {s} : history(r)' = history(r)]_vars

\* the failure kind of an exception that left the try block of
\* _get_ai_response: RuntimeError is raised for an empty Gemini text
\* (chat.py:106), AttributeError by None.strip() for an OpenAI message
\* without content (chat.py:67)
FailureKind(raised) ==
    CASE raised = "RateLimitError" -> "RateLimited"
      [] raised = "APITimeoutError" -> "Timeout"
      [] raised = "APIError" -> "ProviderError"
      [] raised \in {"RuntimeError", "AttributeError"} -> "EmptyResponse"
      [] OTHER -> "Unexpected"

\* the user-visible message of each failure kind
KindMessage(kind) ==
    CASE kind = "RateLimited" -> RateLimitMsg
      [] kind = "Timeout" -> TimeoutMsg
      [] kind \in {"ProviderError", "EmptyResponse"} -> ApiErrorMsg
      [] OTHER -> UnexpectedMsg

\* C11: a /chat request whose provider call failed is answered with the
\* message of the failure's kind: high traffic for a rate limit, taking
\* longer than expected for a timeout, technical difficulties for a provider
\* error and for an empty response, unexpected error for anything else.
C11_FailureKindMessage ==
    \A t \in BotTasks :
        (bot[t].pc = "done" /\ bot[t].cmd = "chat" /\ bot[t].raised # "none")
            => bot[t].result = KindMessage(FailureKind(bot[t].raised))

BotFailureTexts == {RateLimitMsg, TimeoutMsg, ApiErrorMsg, UnexpectedMsg}
WebFailureTexts == {UnavailableMsg, InternalServerError}

\* C12: no provider failure leaves _get_ai_response or generate_ai_response
\* as an exception: the request ends with an answer, and the answer is one
\* of the constant texts of the program (on the web the unavailable text,
\* answered with status 200, or the route's own 'Internal server error'),
\* never text taken from the exception.
C12_FailureGivesConstantText ==
    /\ \A t \in BotTasks :
          (bot[t].pc = "done" /\ bot[t].cmd = "chat" /\ bot[t].raised # "none")
              => bot[t].result \in BotFailureTexts
    /\ \A w \in WebThreads :
          (web[w].pc = "done" /\ web[w].cmd = "chat" /\ web[w].failed)
              => /\ web[w].result \in WebFailureTexts
                 /\ web[w].status = 200 => web[w].result = UnavailableMsg

\* a bot request failed with an exception of the last except clause while a
\* web request failed in generate_ai_response
C12_Witness ==
    /\ \E t \in BotTasks :
          /\ bot[t].pc = "done" /\ bot[t].cmd = "chat"
          /\ bot[t].raised \in {"Exception", "RuntimeError", "AttributeError"}
    /\ \E w \in WebThreads :
          /\ web[w].pc = "done" /\ web[w].cmd = "chat"
          /\ web[w].failed /\ web[w].status = 200

\* a reply of a clear operation saying that a history was removed
ReportsRemoval(reply) == reply \in {ClearedReply, HistoryClearedReply}

\* C14: after a clear the user's history reads as the empty sequence, and
\* the next context built for the user is the system entry and the new
\* message only; a clear for a user without history changes no history and
\* does not report a removal.  On the bot and on the web.
C14_ClearSemantics ==
    [][/\ \A t \in BotTasks, u \in BotUsers : BotClear(t, u) =>
              /\ DictGet(bot_history', u, <<>>) = <<>>
              /\ \A m \in Msgs :
                    build_conversation_context(bot_history', u, m)
                        = <<Entry("system", BotSystemPrompt), Entry("user", m)>>
              /\ u \notin DOMAIN bot_history =>
                    /\ bot_history' = bot_history
                    /\ web_history' = web_history
                    /\ ~ReportsRemoval(bot'[t].result)
       /\ \A w \in WebThreads, s \in Sessions : WebClearHistory(w, s) =>
              LET user_id == session_get(s, "user_id", "anonymous") IN
              /\ history(s)' = <<>>
              /\ \A m \in Msgs :
                    build_messages(web_history', user_id, m)
                        = <<Entry("system", WebSystemPrompt), Entry("user", m)>>
              /\ user_id \notin DOMAIN web_history =>
                    /\ web_history' = web_history
                    /\ bot_history' = bot_history
                    /\ ~ReportsRemoval(web'[w].result)]_vars

---------------------------------------------------------------------------
(* The stores in long use: one bot task and one web thread serve requests  *)
(* one after the other, every provider call succeeds, nothing is cleared.  *)
(* The stores do not depend on the provider: one is configured.            *)

StoreTask == "t1"
StoreThread == "w1"
StoreSession == "s1"
StoreMsgs == {Chars("a", 1), Chars("a", 2)}
StoreBody == [json |-> TRUE, message |-> <<Run(WS, 1), Run("a", 1)>>]
StoreOutcome == Outcome("response", FALSE, ReplyText, <<>>)

\* the entries a returning _get_ai_response hands to extend(), if any
Extended(t, o) ==
    LET b == BotProviderBranch(ai_provider, o) IN
    IF b.raised = "none"
    THEN <<Entry("user", bot[t].message), Entry("assistant", b.ai_response)>>
    ELSE <<>>

NextStore ==
    \/ \E u \in BotUsers, m \in StoreMsgs :
           ops < MaxAppends /\ BotChatStart(StoreTask, u, m) /\ UNCHANGED appended
    \/ /\ BotProviderReturns(StoreTask, StoreOutcome)
       /\ appended' = [appended EXCEPT ![bot[StoreTask].user_id] =
                           @ \o Extended(StoreTask, StoreOutcome)]
    \/ /\ ops < MaxAppends
       /\ WebChatBegin(StoreThread, StoreSession, StoreBody)
       /\ UNCHANGED appended
    \/ WebGenerateStart(StoreThread) /\ UNCHANGED appended
    \/ WebProviderReturns(StoreThread, StoreOutcome) /\ UNCHANGED appended

InitStore == Init /\ ai_provider = "openai"

SpecStore == InitStore /\ [][NextStore]_vars

Min(a, b) == IF a <= b THEN a ELSE b

\* C1: after every call of _update_conversation_history a bot user's
\* history has at most 2 * max_history_length = 20 entries and is the last
\* min(2N, 20) entries, in order, of everything appended for that user.
C1_HistoryIsRecentWindow ==
    \A u \in BotUsers :
        LET h == DictGet(bot_history, u, <<>>)
            all == appended[u]
        IN  /\ Len(h) <= 2 * max_history_length
            /\ Len(h) = Min(Len(all), 2 * max_history_length)
            /\ \A i \in 1..Len(h) : h[i] = all[Len(all) - Len(h) + i]

\* a user's history was trimmed: more was appended than is kept
C1_Witness ==
    \E u \in BotUsers :
        /\ Len(appended[u]) > 2 * max_history_length
        /\ Len(DictGet(bot_history, u, <<>>)) = 2 * max_history_length

\* a prompt context over the stored list `stored`, of which the last k
\* entries are used, for the new message m
ContextWellFormed(ctx, stored, k, m) ==
    /\ Len(ctx) = k + 2
    /\ ctx[1].role = "system"
    /\ \A i \in 2..Len(ctx) : ctx[i].role # "system"
    /\ \A j \in 1..k :
          LET e == stored[Len(stored) - k + j] IN
          /\ ctx[1 + j].content = e.content
          /\ ctx[1 + j].role = (IF e.role = "ai" THEN "assistant" ELSE e.role)
    /\ ctx[Len(ctx)] = Entry("user", m)

\* C4: for every user, stored history (absent, empty or not) and new
\* message, the context of either builder has exactly one system entry, at
\* index 0, then the history entries in their stored order (the web builder
\* takes the 20 most recent), and its last entry is the new message with
\* role user.
C4_ContextShape ==
    /\ \A u \in BotUsers, m \in StoreMsgs :
          LET stored == DictGet(bot_history, u, <<>>) IN
          ContextWellFormed(build_conversation_context(bot_history, u, m),
                            stored, Len(stored), m)
    /\ \A s \in Sessions, m \in StoreMsgs :
          ContextWellFormed(
              build_messages(web_history, session_get(s, "user_id", "anonymous"), m),
              history(s), Min(Len(history(s)), WebContextWindow), m)

\* the bot builds a context for a user without history while the web
\* builds one from a stored list longer than its window
C4_Witness ==
    /\ \E u \in BotUsers, m \in StoreMsgs :
          Len(build_conversation_context(bot_history, u, m)) = 2
    /\ web[StoreThread].pc = "calling"
    /\ Len(history(StoreSession)) > WebContextWindow
    /\ Len(web[StoreThread].messages) = WebContextWindow + 2

\* C15: the web server's store keeps at most 2 x max_turns = 20 entries
\* for every key at all times, whatever /api/chat requests were served.
C15_WebHistoryBounded ==
    \A k \in DOMAIN web_history : Len(web_history[k]) <= 2 * max_history_length

\* the history portion of a prompt context: what lies between the system
\* entry and the final entry
HistoryPortion(messages) == SubSeq(messages, 2, Len(messages) - 1)

\* C16: in the context sent to the provider the entries between the system
\* entry and the final entry are whole user/assistant pairs beginning with
\* a user entry (the exchanges completed before the request), so that the
\* new message occurs as the final entry only.  On the bot and on the web.
C16_ContextHistoryIsCompletedPairs ==
    /\ \A t \in BotTasks : bot[t].pc = "awaiting" =>
           /\ WholePairs(HistoryPortion(bot[t].messages), "assistant")
           /\ bot[t].messages[Len(bot[t].messages)] = Entry("user", bot[t].message)
    /\ \A w \in WebThreads : web[w].pc = "calling" =>
           /\ WholePairs(HistoryPortion(web[w].messages), "assistant")
           /\ web[w].messages[Len(web[w].messages)] = Entry("user", web[w].message)

---------------------------------------------------------------------------
(* The chunker under study: _format_response applied to one text *)

RunLens == {1, 1999, 2000}
RunClasses == {"a", TERM, WS}

\* the texts of at most MaxRuns runs (adjacent runs of different class)
Texts ==
    {t \in UNION {[1..k -> [c : RunClasses, n : RunLens]] : k \in 0..MaxRuns} :
        \A i \in 1..(Len(t) - 1) : t[i].c # t[i + 1].c}

InitChunk ==
    /\ response \in Texts
    /\ response_parts = NotCalled
    /\ sent = NotSent
    /\ environ = <<>>
    /\ config = <<>>
    /\ ai_provider = "openai"
    /\ session = <<>>
    /\ bot_history = <<>>
    /\ web_history = <<>>
    /\ bot = <<>>
    /\ web = <<>>
    /\ ops = 0
    /\ appended = <<>>

\* chat.py:246  response_parts = self._format_response(ai_response)
FormatResponse ==
    /\ ~response_parts.called
    /\ response_parts' = [called |-> TRUE, parts |-> format_response(response)]
    /\ UNCHANGED <<response, sent, pipelineVars, appended>>

SplitNotice == Chars("Response split into multiple messages due to length.", 52)
CommandErrorReply == Chars("An error occurred while processing your request. Please try again.", 66)

\* one delivered message: through the interaction's followup webhook or to
\* the channel
Message(via, content) == [via |-> via, content |-> content]

\* Discord's limits on the content of a message (chat.py:37-38): a message
\* that is empty or longer than max_message_length is refused and the send
\* raises
DiscordAccepts(content) ==
    content # EmptyText /\ StrLen(content) <= max_message_length

\* chat.py:253-257: the for loop, from part i on, until a send raises
RECURSIVE SendParts(_, _, _)
SendParts(parts, i, log) ==
    IF i > Len(parts) THEN [raised |-> FALSE, log |-> log]
    ELSE IF ~DiscordAccepts(parts[i]) THEN [raised |-> TRUE, log |-> log]
    ELSE SendParts(parts, i + 1,
             Append(log, Message(IF i = 1 THEN "followup" ELSE "channel", parts[i])))

\* chat.py:249-265: the messages chat_command delivers for response_parts
chat_command(parts) ==
    LET try == IF Len(parts) = 1
               THEN IF DiscordAccepts(parts[1])
                    THEN [raised |-> FALSE, log |-> <<Message("followup", parts[1])>>]
                    ELSE [raised |-> TRUE, log |-> <<>>]
               ELSE LET loop == SendParts(parts, 1, <<>>)
                    IN  IF loop.raised THEN loop
                        ELSE [raised |-> FALSE,
                              log |-> Append(loop.log, Message("followup", SplitNotice))]
    IN  IF try.raised
        THEN Append(try.log, Message("followup", CommandErrorReply))
        ELSE try.log

\* chat.py:249-265  the response is sent
SendResponse ==
    /\ response_parts.called
    /\ ~sent.done
    /\ sent' = [done |-> TRUE, messages |-> chat_command(response_parts.parts)]
    /\ UNCHANGED <<response, response_parts, pipelineVars, appended>>

NextChunk ==
    \/ FormatResponse
    \/ SendResponse

SpecChunk == InitChunk /\ [][NextChunk]_vars

\* whitespace normalization: every whitespace run becomes one space and the
\* surrounding whitespace is dropped
NormalizeWS(t) == StrStrip([i \in 1..Len(t) |->
                      IF t[i].c = WS THEN Run(WS, 1) ELSE t[i]])

\* " ".join(parts)
RECURSIVE JoinSpace(_)
JoinSpace(parts) ==
    IF parts = <<>> THEN EmptyText
    ELSE IF Len(parts) = 1 THEN parts[1]
    ELSE StrConcat(StrConcat(parts[1], Chars(WS, 1)), JoinSpace(Tail(parts)))

\* C5: every chunk returned by _format_response is at most
\* max_message_length (2000) characters long.
C5_ChunkWithinLimit ==
    response_parts.called =>
        \A i \in 1..Len(response_parts.parts) :
            StrLen(response_parts.parts[i]) <= max_message_length

\* C6: joining the returned chunks with single spaces gives the original
\* text up to whitespace normalization (nothing lost, duplicated or
\* reordered, the whitespace between two sentences of one chunk kept).
C6_JoinReproducesText ==
    response_parts.called =>
        NormalizeWS(JoinSpace(response_parts.parts)) = NormalizeWS(response)

\* C7: for a non-empty text _format_response returns a non-empty list, no
\* chunk of which is the empty string or has leading or trailing whitespace.
C7_ChunksNonEmptyTrimmed ==
    (response_parts.called /\ response # EmptyText) =>
        /\ response_parts.parts # <<>>
        /\ \A i \in 1..Len(response_parts.parts) :
              /\ response_parts.parts[i] # EmptyText
              /\ StrStrip(response_parts.parts[i]) = response_parts.parts[i]

\* the contents of the delivered messages, in the order of delivery
Contents(messages) == [i \in 1..Len(messages) |-> messages[i].content]

\* C13: a response of more than one part is delivered part by part in chunk
\* order, followed by exactly one notice 'Response split into multiple
\* messages due to length.' as a message of its own; a response of exactly
\* one part is delivered as that part, without a notice.
C13_PartsThenOneNotice ==
    sent.done =>
        LET parts == response_parts.parts IN
        /\ Len(parts) > 1 => Contents(sent.messages) = parts \o <<SplitNotice>>
        /\ Len(parts) = 1 => Contents(sent.messages) = <<parts[1]>>

---------------------------------------------------------------------------
(* Configuration: Config() is constructed in some environment when the     *)
(* config module is imported; if it raises the program does not start,     *)
(* otherwise one bot task and one web thread serve requests.               *)

ProviderValues ==
    {Unset, Set(<<>>), Set(<<" ">>), Set(OPENAI), Set(GEMINI),
     Set(<<"O", "p", "e", "n", "A", "I">>),
     Set(<<" ", "G", "E", "M", "I", "N", "I", " ">>),
     Set(<<"A", "I">>),
     Set(<<"o", "p", "e", "n", " ", "a", "i">>)}
TokenValues == {Unset, Set(<<"t">>)}
KeyValues == {Unset, Set(<<>>), Set(<<"k">>)}

Envs == [AI_PROVIDER : ProviderValues, DISCORD_TOKEN : TokenValues,
         OPENAI_API_KEY : KeyValues, GEMINI_API_KEY : KeyValues]

InitConfig ==
    /\ environ \in Envs
    /\ config = NotConstructed
    /\ ai_provider = "unset"
    /\ session = [s \in Sessions |-> EmptyDict]
    /\ bot_history = EmptyDict
    /\ web_history = EmptyDict
    /\ bot = [t \in BotTasks |-> BotTaskIdle]
    /\ web = [w \in WebThreads |-> WebThreadIdle]
    /\ ops = 0
    /\ appended = [u \in BotUsers |-> <<>>]
    /\ response = EmptyText
    /\ response_parts = NotCalled
    /\ sent = NotSent

NextConfig ==
    \/ ConfigInit
    \/ \E u \in BotUsers, m \in Msgs :
           /\ config.constructed = "yes" /\ ops < MaxOps
           /\ BotChatStart(StoreTask, u, m) /\ UNCHANGED appended
    \/ \E o \in ProviderOutcomes(ai_provider) :
           BotProviderReturns(StoreTask, o) /\ UNCHANGED appended
    \/ \E body \in RequestBodies :
           /\ config.constructed = "yes" /\ ops < MaxOps
           /\ WebChatBegin(StoreThread, StoreSession, body) /\ UNCHANGED appended
    \/ WebGenerateStart(StoreThread) /\ UNCHANGED appended
    \/ \E o \in ProviderOutcomes(ai_provider) :
           WebProviderReturns(StoreThread, o) /\ UNCHANGED appended

SpecConfig == InitConfig /\ [][NextConfig]_vars

\* the value of AI_PROVIDER with case and surrounding whitespace put aside
GivenProvider == lower(strip(getenv(environ, "AI_PROVIDER", Set(OPENAI)).value))

\* C17: once Config() was constructed without raising, whatever the value
\* of AI_PROVIDER (any case, surrounding whitespace, unset, empty, unknown),
\* ai_provider is 'openai' or 'gemini' (gemini if that was given, openai
\* otherwise) and the API key of that provider is set; no request ends in
\* the 'Unsupported AI provider' branch, whose condition is that
\* ai_provider is neither, and no request changes ai_provider.
C17_ProviderSettledAtConfiguration ==
    /\ [](config.constructed = "yes" =>
            /\ ai_provider \in {"openai", "gemini"}
            /\ ai_provider = (IF GivenProvider = GEMINI THEN "gemini" ELSE "openai")
            /\ ai_provider = "openai" => Truthy(config.openai_api_key)
            /\ ai_provider = "gemini" => Truthy(config.gemini_api_key)
            /\ \A t \in BotTasks : bot[t].raised # "ValueError"
            /\ \A o \in ProviderOutcomes(ai_provider) :
                  BotProviderBranch(ai_provider, o).raised # "ValueError")
    /\ [][config.constructed = "yes" => ai_provider' = ai_provider]_vars

\* Config() was constructed for an unknown AI_PROVIDER, fell back, and a
\* bot request and a web request were then served
C17_Witness ==
    /\ config.constructed = "yes"
    /\ environ.AI_PROVIDER = Set(<<"A", "I">>)
    /\ ai_provider = "openai"
    /\ bot[StoreTask].pc = "done" /\ bot[StoreTask].cmd = "chat"
    /\ web[StoreThread].pc = "done" /\ web[StoreThread].cmd = "chat"
    /\ web[StoreThread].status = 200

=============================================================================
